---- MODULE Spec2Model ----
(***************************************************************************)
(* Model of the evaluation / comparison pipeline orchestrator of the       *)
(* adult-learning-coach backend: the create/start request handlers         *)
(* (routers/evaluations.py, routers/comparisons.py) and the two background *)
(* pipelines (services/evaluation.py, services/comparison_pipeline.py).    *)
(*                                                                         *)
(* The database holds the committed rows.  Every pipeline run owns a       *)
(* session: an in-memory copy of its entity (obj) and the set of columns   *)
(* assigned since the last commit (dirty).  A commit either writes the     *)
(* dirty columns or raises and leaves the database unchanged.  Handlers    *)
(* and pipelines are coroutines on one event loop: they interleave at      *)
(* their awaits.  An action is the code between two awaits that touch the  *)
(* database; the awaits in between (a gateway call in a worker thread, a   *)
(* lookup of a row nobody changes) read and write nothing shared and are   *)
(* part of the action that precedes them.                                  *)
(***************************************************************************)
EXTENDS Integers, Sequences, FiniteSets, TLC

\* ------------------------------------------------------------------ bounds
MaxRequests == 2     \* HTTP requests handled in one behaviour
MaxFaults   == 3     \* failures of the database or of a gateway in one behaviour
NumVideos   == 1     \* videos uploaded before the behaviour starts
NumSeeded   == 2     \* evaluations that exist before the behaviour starts
MaxLinks    == 3     \* links of the comparison that exists before the behaviour starts
MaxUnits    == 3     \* analysis units in one call of _extract_comparison_metrics
NumQueued   == 2     \* videos whose evaluation is queued when a deletion may arrive
MaxSections == 2     \* "## " sections of a comparison report

\* --------------------------------------------------------------- constants
Null == "null"
\* a NULL timestamp; the other timestamps are 1, 2, ... in the order of time
NoTime == 0
\* a NULL foreign key
NullId == 0

VARIABLES
    videos,        \* Video rows, by id
    users,         \* ids of the User rows
    evals,         \* Evaluation rows, by id
    transcripts,   \* Transcript rows, by id
    comps,         \* Comparison rows, by id
    links,         \* ComparisonEvaluation rows of each comparison, ordered by display_order
    reqs,          \* request handlers in flight: arguments and position
    nreq,          \* requests received so far
    resp,          \* the response sent by the step that led here, NoResp when it sent none
    tasks,         \* background pipeline runs: entity, position, session
    faults         \* failures injected so far

vars == <<videos, users, evals, transcripts, comps, links, reqs, nreq, resp, tasks, faults>>

\* ------------------------------------------------------------------ values
\* Evaluation.metrics / Comparison.metrics (a JSON column): unset, or a dict
\* described by its key set and the value under "error".
NullMetrics == [isset |-> FALSE, keys |-> {}, error |-> <<>>]

CoachingKeys == {"wpm", "pauses_per_10min", "filler_words_per_min",
                 "questions_per_5min", "tangent_percentage"}

UsageKeys == {"analysis_input_tokens", "analysis_output_tokens",
              "analysis_processing_seconds", "analysis_model"}

\* the exception texts the environment produces
GatewayError == "gateway error"
DbError      == "db error"

\* f"{prefix}{cause}"
Msg(prefix, cause) == <<prefix, cause>>

\* {"error": error_message}
ErrorMetrics(m) == [isset |-> TRUE, keys |-> {"error"}, error |-> m]

\* {**result.metrics, "analysis_input_tokens": ..., ...}
MergedMetrics(extracted) == [isset |-> TRUE, keys |-> extracted \cup UsageKeys, error |-> <<>>]

\* the subsets of coaching metrics that _extract_metrics finds in a report
ExtractedMetrics == {{}, {"wpm"}}

Max(S) == CHOOSE x \in S : \A y \in S : y <= x

NewId(table) == Max(DOMAIN table \cup {0}) + 1

\* Evaluation(video_id=..., instructor_id=..., status="queued")
NewEvaluation(v, i) ==
    [video_id |-> v, instructor_id |-> i, status |-> "queued",
     transcript_id |-> NullId, report_markdown |-> Null,
     strengths |-> Null, growth_opportunities |-> Null,
     metrics |-> NullMetrics,
     created_at |-> 1,
     processing_started_at |-> NoTime, processing_completed_at |-> NoTime]

\* ---------------------------------------------------------------- sessions
\* UPDATE ... SET <dirty columns> WHERE id = ...
Flush(row, obj, dirty) ==
    [f \in DOMAIN row |-> IF f \in dirty THEN obj[f] ELSE row[f]]

\* how many more failures the environment may inject
Budget == MaxFaults - faults

NoTask == [kind |-> "none", id |-> 0, pc |-> "done", obj |-> <<>>, dirty |-> {},
           pending |-> {}, msg |-> <<>>, raised |-> FALSE, dropped |-> FALSE,
           tcalls |-> 0, acalls |-> 0, units |-> <<>>, fails |-> 0, fraised |-> 0,
           now |-> 0, gfail |-> "", novideo |-> FALSE]

\* a run starts after the commit that created its entity (created_at is 1);
\* "now" is what datetime.now() returns to the run
NewTask(k, i) == [NoTask EXCEPT !.kind = k, !.id = i, !.pc = "load", !.now = 2]

\* the coroutine returns and its session is closed
Return(tk) ==
    [tk EXCEPT !.pc = "done", !.obj = <<>>, !.dirty = {}, !.pending = {}, !.units = <<>>]

\* what a failed commit leaves in the session: the pending changes are either
\* kept for the next flush or rolled back (the object then shows the row again)
AfterFailedCommit(tk, keep, row) ==
    IF keep THEN tk ELSE [tk EXCEPT !.obj = row, !.dirty = {}, !.pending = {}]

\* a fail-handler that keeps the error message recorded by an earlier call
MarkFailed_KeepFirst(tk, m) ==
    [tk EXCEPT !.obj.status = "failed",
               !.obj.processing_completed_at = tk.now,
               !.obj.metrics = IF @.keys = {"error"} THEN @ ELSE ErrorMetrics(m),
               !.dirty = @ \cup {"status", "processing_completed_at", "metrics"},
               !.msg = m,
               !.fails = @ + 1]

\* the assignments of _fail_evaluation / _fail_comparison, up to their commit
MarkFailed(tk, m) ==
    [tk EXCEPT !.obj.status = "failed",
               !.obj.processing_completed_at = tk.now,
               !.obj.metrics = ErrorMetrics(m),
               !.dirty = @ \cup {"status", "processing_completed_at", "metrics"},
               !.msg = m,
               !.fails = @ + 1]

\* the commit of a fail-handler call made in the body of the pipeline's try
\* block or in a stage's except clause: its failure propagates to the
\* pipeline's except clause, which calls the fail-handler with str(e)
FailInnerTask(tk, ok, keep, row) ==
    IF ok
    THEN Return(tk)
    ELSE [MarkFailed(AfterFailedCommit([tk EXCEPT !.fraised = @ + 1], keep, row),
                     Msg("", DbError))
            EXCEPT !.pc = "fail_outer"]

\* a pipeline without the inner "try: ... except Exception: pass"
Swallow_Reraised(tk) == [Return(tk) EXCEPT !.dropped = TRUE, !.raised = TRUE]

\* "except Exception: pass": the exception raised while the pipeline's
\* except clause handles a failure is discarded, and the coroutine returns
Swallow(tk) == [Return(tk) EXCEPT !.dropped = TRUE, !.raised = FALSE]

\* the commit of the fail-handler call made by the pipeline's except clause,
\* inside "try: ... except Exception: pass"
FailOuterTask(tk, ok) ==
    IF ok THEN Return(tk) ELSE Swallow([tk EXCEPT !.fraised = @ + 1])

\* ------------------------------------------------------- POST /evaluations
\* the videos without an evaluation, the evaluations completed earlier and
\* their videos, an id no row has
VideoIds == 1 .. NumVideos
SeededIds == 1 .. NumSeeded
SeededVideo(e) == 100 + e
MissingId == 99
GhostUser == 2     \* an instructor id without a User row

IsEvalTask(t) == t \in 1 .. Len(tasks) /\ tasks[t].kind = "eval"
IsCompTask(t) == t \in 1 .. Len(tasks) /\ tasks[t].kind = "comp"

NoReq == [kind |-> "none", pc |-> "done", video |-> 0, instructor |-> 0, comp |-> 0,
          body |-> <<>>]

NoResp == [kind |-> "none", code |-> 0, id |-> 0]

Remove(seq, i) == SubSeq(seq, 1, i - 1) \o SubSeq(seq, i + 1, Len(seq))

\* the handler of request r returns or raises HTTPException
Respond(r, c, i) ==
    /\ reqs' = Remove(reqs, r)
    /\ resp' = [kind |-> reqs[r].kind, code |-> c, id |-> i]

\* select(Evaluation).where(video_id == v, status.not_in(["failed"]))
ExistingEvaluations(v) ==
    {e \in DOMAIN evals : evals[e].video_id = v /\ evals[e].status # "failed"}

\* the request arrives and the handler looks the video up
CreateEvaluation_Begin ==
    /\ nreq < MaxRequests
    /\ nreq' = nreq + 1
    /\ \E v \in VideoIds \cup {MissingId, SeededVideo(1)}, i \in users :
          IF v \in DOMAIN videos
          THEN /\ reqs' = Append(reqs, [NoReq EXCEPT !.kind = "create_evaluation",
                                                     !.pc = "check",
                                                     !.video = v, !.instructor = i])
               /\ resp' = NoResp
          ELSE /\ resp' = [kind |-> "create_evaluation", code |-> 404, id |-> 0]
               /\ UNCHANGED reqs
    /\ UNCHANGED <<videos, users, evals, transcripts, comps, links, tasks, faults>>

\* existing.scalar_one_or_none(): no row -> go on, one row -> 409,
\* several rows -> MultipleResultsFound (500)
DuplicateCheck(v) ==
    LET n == Cardinality(ExistingEvaluations(v))
    IN  IF n = 0 THEN 0 ELSE IF n = 1 THEN 409 ELSE 500

CreateEvaluation_Check(r) ==
    /\ reqs[r].kind = "create_evaluation" /\ reqs[r].pc = "check"
    /\ IF DuplicateCheck(reqs[r].video) = 0
       THEN /\ reqs' = [reqs EXCEPT ![r].pc = "insert"]
            /\ resp' = NoResp
       ELSE Respond(r, DuplicateCheck(reqs[r].video), 0)
    /\ UNCHANGED <<videos, users, evals, transcripts, comps, links, tasks, faults, nreq>>

\* db.add(evaluation); commit; refresh; background_tasks.add_task(...)
CreateEvaluation_Insert(r) ==
    /\ reqs[r].kind = "create_evaluation" /\ reqs[r].pc = "insert"
    /\ LET id == NewId(evals)
       IN  /\ evals' = (id :> NewEvaluation(reqs[r].video, reqs[r].instructor)) @@ evals
           /\ tasks' = Append(tasks, NewTask("eval", id))
           /\ Respond(r, 200, id)
    /\ UNCHANGED <<videos, users, transcripts, comps, links, faults, nreq>>

\* ------------------------------------------------- run_evaluation_pipeline
\* the run reaches its next await: time has passed when it resumes
SetTask(t, tk) == tasks' = [tasks EXCEPT ![t] = [tk EXCEPT !.now = @ + 1]]

\* the session's commit: UPDATE of the evaluation, INSERT of the new
\* transcript, UPDATE of the video
CommitEvaluation(tk) ==
    /\ evals' = [evals EXCEPT ![tk.id] = Flush(@, tk.obj, tk.dirty)]
    /\ transcripts' = IF "transcript" \in tk.pending
                      THEN (tk.id :> [video_id |-> tk.obj.video_id, status |-> "completed"])
                           @@ transcripts
                      ELSE transcripts
    /\ videos' = IF "video" \in tk.pending
                 THEN [videos EXCEPT ![tk.obj.video_id] =
                          [upload_status |-> "transcribed", duration_seconds |-> "set"]]
                 ELSE videos

Committed(tk) == [tk EXCEPT !.dirty = {}, !.pending = {}]

\* a pipeline that announces the analysis before the transcription
SetTranscribing_Skipped(tk) ==
    [tk EXCEPT !.obj.status = "analyzing",
               !.obj.processing_started_at = tk.now,
               !.dirty = @ \cup {"status", "processing_started_at"},
               !.pc = "commit_transcribing"]

\* evaluation.status = "transcribing"; processing_started_at = now
SetTranscribing(tk) ==
    [tk EXCEPT !.obj.status = "transcribing",
               !.obj.processing_started_at = tk.now,
               !.dirty = @ \cup {"status", "processing_started_at"},
               !.pc = "commit_transcribing"]

\* lines 57-59: no Video row: _fail_evaluation(db, evaluation, "Video not found")
VideoNotFound(tk) ==
    [MarkFailed(tk, Msg("", "Video not found")) EXCEPT !.novideo = TRUE, !.pc = "fail_inner"]

\* the two lookups that open the pipeline.  A failing Evaluation lookup
\* leaves "evaluation" unbound: the except clause's own _fail_evaluation call
\* raises inside "try: ... except Exception: pass" and the run returns.
RunEvaluation_Load(t) ==
    /\ IsEvalTask(t) /\ tasks[t].pc = "load"
    /\ \E out \in {"ok", "eval_lookup_fails", "video_lookup_fails"} :
          /\ out # "ok" => Budget >= 1
          /\ faults' = IF out = "ok" THEN faults ELSE faults + 1
          /\ LET tk == [tasks[t] EXCEPT !.obj = evals[tasks[t].id]]
             IN  SetTask(t,
                   IF out = "eval_lookup_fails" THEN Swallow(tasks[t])
                   ELSE IF tasks[t].id \notin DOMAIN evals THEN Return(tasks[t])
                   ELSE IF out = "video_lookup_fails"
                   THEN [MarkFailed(tk, Msg("", DbError)) EXCEPT !.pc = "fail_outer"]
                   ELSE IF tk.obj.video_id \notin DOMAIN videos
                   THEN VideoNotFound(tk)
                   ELSE SetTranscribing(tk))
    /\ UNCHANGED <<videos, users, evals, transcripts, comps, links, reqs, nreq>>
    /\ resp' = NoResp

\* transcript.id of the Transcript built for this run, as line 148 reads it
\* (the model classes are not in the source tree; the transcript id of an
\* evaluation is "set once transcription completes")
TranscriptId(tk) == tk.id

\* a transcription stage that links the evaluation to a Transcript it never adds
Transcribed_Unsaved(tk) ==
    [tk EXCEPT !.tcalls = @ + 1,
               !.pending = {"video"},
               !.obj.transcript_id = TranscriptId(tk),
               !.dirty = @ \cup {"transcript_id"},
               !.pc = "commit_transcript"]

\* _run_transcription up to its commit: the gateway call, then the new
\* Transcript, the video's duration and status, evaluation.transcript_id
Transcribed(tk) ==
    [tk EXCEPT !.tcalls = @ + 1,
               !.pending = {"transcript", "video"},
               !.obj.transcript_id = TranscriptId(tk),
               !.dirty = @ \cup {"transcript_id"},
               !.pc = "commit_transcript"]

\* a transcription stage whose except clause returns without _fail_evaluation
TranscriptionFailed_Unmarked(tk) == Return([tk EXCEPT !.tcalls = @ + 1])

\* a pipeline that goes on to the analysis although the transcription
\* stage returned None
TranscriptionFailed_Continues(tk) ==
    [MarkFailed(tk, Msg("Transcription failed: ", GatewayError))
       EXCEPT !.tcalls = @ + 1, !.gfail = "transcription",
              !.obj.status = "analyzing", !.pc = "commit_analyzing"]

\* the except clause of _run_transcription (lines 155-159); gfail records
\* which gateway call of the run raised
TranscriptionFailed(tk) ==
    [MarkFailed(tk, Msg("Transcription failed: ", GatewayError))
       EXCEPT !.tcalls = @ + 1, !.gfail = "transcription", !.pc = "fail_inner"]

\* a pipeline that goes on to the analysis without announcing it
SetAnalyzing_Unset(tk) == [tk EXCEPT !.pc = "commit_analyzing"]

\* evaluation.status = "analyzing"
SetAnalyzing(tk) ==
    [tk EXCEPT !.obj.status = "analyzing", !.dirty = @ \cup {"status"},
               !.pc = "commit_analyzing"]

\* an analysis stage that stores the extracted metrics without the usage keys
Analyzed_Unmerged(tk, extracted) ==
    [tk EXCEPT !.acalls = @ + 1,
               !.obj.report_markdown = "md",
               !.obj.strengths = "items",
               !.obj.growth_opportunities = "items",
               !.obj.metrics = [isset |-> TRUE, keys |-> extracted, error |-> <<>>],
               !.dirty = @ \cup {"report_markdown", "strengths",
                                 "growth_opportunities", "metrics"},
               !.pc = "commit_analysis"]

\* _run_analysis up to its commit: the gateway call, then the report, the
\* strengths, the growth opportunities and the merged metrics
Analyzed(tk, extracted) ==
    [tk EXCEPT !.acalls = @ + 1,
               !.obj.report_markdown = "md",
               !.obj.strengths = "items",
               !.obj.growth_opportunities = "items",
               !.obj.metrics = MergedMetrics(extracted),
               !.dirty = @ \cup {"report_markdown", "strengths",
                                 "growth_opportunities", "metrics"},
               !.pc = "commit_analysis"]

\* an except clause that also unlinks the transcript
AnalysisFailed_Unlinks(tk) ==
    [MarkFailed(tk, Msg("Analysis failed: ", GatewayError))
       EXCEPT !.acalls = @ + 1, !.gfail = "analysis", !.pc = "fail_inner",
              !.obj.transcript_id = NullId,
              !.dirty = @ \cup {"transcript_id"}]

\* an except clause that tries the gateway once more before it gives up
AnalysisFailed_Retried(tk) ==
    [MarkFailed(tk, Msg("Analysis failed: ", GatewayError))
       EXCEPT !.acalls = @ + 2, !.gfail = "analysis", !.pc = "fail_inner"]

\* the except clause of _run_analysis (lines 210-214)
AnalysisFailed(tk) ==
    [MarkFailed(tk, Msg("Analysis failed: ", GatewayError))
       EXCEPT !.acalls = @ + 1, !.gfail = "analysis", !.pc = "fail_inner"]

\* a pipeline that completes without recording when
SetCompleted_Undated(tk) ==
    [tk EXCEPT !.obj.status = "completed", !.dirty = @ \cup {"status"},
               !.pc = "commit_completed"]

\* evaluation.status = "completed"; processing_completed_at = now
SetCompleted(tk) ==
    [tk EXCEPT !.obj.status = "completed", !.obj.processing_completed_at = tk.now,
               !.dirty = @ \cup {"status", "processing_completed_at"},
               !.pc = "commit_completed"]

\* a failed commit of the evaluation session: prefix = "" when the commit is
\* in the body of the pipeline's try block (the pipeline's except clause
\* handles it), the stage's prefix when it is inside a stage
CommitFailed(tk, keep, prefix) ==
    [MarkFailed(AfterFailedCommit(tk, keep, evals[tk.id]), Msg(prefix, DbError))
       EXCEPT !.pc = IF prefix = "" THEN "fail_outer" ELSE "fail_inner"]

\* line 64: commit of "transcribing", then the transcription stage
RunEvaluation_CommitTranscribing(t) ==
    /\ IsEvalTask(t) /\ tasks[t].pc = "commit_transcribing"
    /\ \E out \in {"ok", "commit_fails", "gateway_fails"},
          keep \in BOOLEAN :
          /\ out # "ok" => Budget >= 1
          /\ out # "commit_fails" => keep
          /\ faults' = IF out = "ok" THEN faults ELSE faults + 1
          /\ IF out = "commit_fails"
             THEN /\ UNCHANGED <<evals, transcripts, videos>>
                  /\ SetTask(t, CommitFailed(tasks[t], keep, ""))
             ELSE /\ CommitEvaluation(tasks[t])
                  /\ SetTask(t, IF out = "ok" THEN Transcribed(Committed(tasks[t]))
                                ELSE TranscriptionFailed(Committed(tasks[t])))
    /\ UNCHANGED <<users, comps, links, reqs, nreq>>
    /\ resp' = NoResp

\* what follows a successful commit: the next assignments, or the return
Continue(then, tk) ==
    IF then = "SetAnalyzing" THEN SetAnalyzing(tk)
    ELSE IF then = "SetCompleted" THEN SetCompleted(tk)
    ELSE Return(tk)

\* a commit followed by assignments only
CommitThen(t, at, prefix, then) ==
    /\ IsEvalTask(t) /\ tasks[t].pc = at
    /\ \E ok \in BOOLEAN, keep \in BOOLEAN :
          /\ ~ok => Budget >= 1
          /\ ok => keep
          /\ faults' = IF ok THEN faults ELSE faults + 1
          /\ IF ok
             THEN /\ CommitEvaluation(tasks[t])
                  /\ SetTask(t, Continue(then, Committed(tasks[t])))
             ELSE /\ UNCHANGED <<evals, transcripts, videos>>
                  /\ SetTask(t, CommitFailed(tasks[t], keep, prefix))
    /\ UNCHANGED <<users, comps, links, reqs, nreq>>
    /\ resp' = NoResp

\* line 150: commit of the transcript; then status = "analyzing"
RunEvaluation_CommitTranscript(t) ==
    CommitThen(t, "commit_transcript", "Transcription failed: ", "SetAnalyzing")

\* line 76: commit of "analyzing", then the analysis stage
RunEvaluation_CommitAnalyzing(t) ==
    /\ IsEvalTask(t) /\ tasks[t].pc = "commit_analyzing"
    /\ \E out \in {"ok", "commit_fails", "gateway_fails"},
          keep \in BOOLEAN, m \in ExtractedMetrics :
          /\ out # "ok" => Budget >= 1 /\ m = {}
          /\ out # "commit_fails" => keep
          /\ faults' = IF out = "ok" THEN faults ELSE faults + 1
          /\ IF out = "commit_fails"
             THEN /\ UNCHANGED <<evals, transcripts, videos>>
                  /\ SetTask(t, CommitFailed(tasks[t], keep, ""))
             ELSE /\ CommitEvaluation(tasks[t])
                  /\ SetTask(t, IF out = "ok" THEN Analyzed(Committed(tasks[t]), m)
                                ELSE AnalysisFailed(Committed(tasks[t])))
    /\ UNCHANGED <<users, comps, links, reqs, nreq>>
    /\ resp' = NoResp

\* line 207: commit of the analysis; then status = "completed"
RunEvaluation_CommitAnalysis(t) ==
    CommitThen(t, "commit_analysis", "Analysis failed: ", "SetCompleted")

\* line 94: commit of "completed"
RunEvaluation_CommitCompleted(t) ==
    CommitThen(t, "commit_completed", "", "Return")

\* the UPDATE of a commit matches the row of the session's evaluation; when
\* the row is gone the commit raises
RowExists(tk) == tk.id \in DOMAIN evals

\* the row a rolled-back session shows again
Row(tk) == IF RowExists(tk) THEN evals[tk.id] ELSE tk.obj

\* _fail_evaluation's commit, reached from the try block
RunEvaluation_FailInner(t) ==
    /\ IsEvalTask(t) /\ tasks[t].pc = "fail_inner"
    /\ \E ok \in BOOLEAN, keep \in BOOLEAN :
          /\ ok => RowExists(tasks[t])
          /\ (~ok /\ RowExists(tasks[t])) => Budget >= 1
          /\ ok => keep
          /\ faults' = IF ok \/ ~RowExists(tasks[t]) THEN faults ELSE faults + 1
          /\ IF ok THEN CommitEvaluation(tasks[t])
                   ELSE UNCHANGED <<evals, transcripts, videos>>
          /\ SetTask(t, FailInnerTask(tasks[t], ok, keep, Row(tasks[t])))
    /\ UNCHANGED <<users, comps, links, reqs, nreq>>
    /\ resp' = NoResp

\* _fail_evaluation's commit, reached from the pipeline's except clause
RunEvaluation_FailOuter(t) ==
    /\ IsEvalTask(t) /\ tasks[t].pc = "fail_outer"
    /\ \E ok \in BOOLEAN :
          /\ ok => RowExists(tasks[t])
          /\ (~ok /\ RowExists(tasks[t])) => Budget >= 1
          /\ faults' = IF ok \/ ~RowExists(tasks[t]) THEN faults ELSE faults + 1
          /\ IF ok THEN CommitEvaluation(tasks[t])
                   ELSE UNCHANGED <<evals, transcripts, videos>>
          /\ SetTask(t, FailOuterTask(tasks[t], ok))
    /\ UNCHANGED <<users, comps, links, reqs, nreq>>
    /\ resp' = NoResp

\* ---------------------------------------------------- GET /evaluations/{id}
\* the has_transcript field of the response, computed from the row the
\* handler has loaded
has_transcript(evaluation) ==
    \/ evaluation.transcript_id # NullId
    \/ evaluation.status \in {"transcribed", "analyzing", "completed"}

\* ----------------------------------------- GET /evaluations/{id}/transcript
\* select(Transcript).where(Transcript.video_id == v)
TranscriptsOfVideo(v) == {x \in DOMAIN transcripts : transcripts[x].video_id = v}

\* the response of get_transcript for evaluation id e: its status code and
\* the Transcript it returns; the lookup by transcript_id, then the fallback
\* by video id, whose scalar_one_or_none() raises on several rows (500)
get_transcript(e) ==
    IF e \notin DOMAIN evals THEN [code |-> 404, id |-> NullId]
    ELSE IF evals[e].transcript_id # NullId /\ evals[e].transcript_id \in DOMAIN transcripts
    THEN [code |-> 200, id |-> evals[e].transcript_id]
    ELSE LET found == TranscriptsOfVideo(evals[e].video_id)
         IN  IF found = {} THEN [code |-> 400, id |-> NullId]
             ELSE IF Cardinality(found) = 1
             THEN [code |-> 200, id |-> CHOOSE x \in found : TRUE]
             ELSE [code |-> 500, id |-> NullId]

\* ------------------------------------------------------- POST /comparisons
\* Comparison(title=..., comparison_type=..., status=..., anonymize_instructors=...)
NewComparison(type, start, anon) ==
    [comparison_type |-> type,
     status |-> IF start THEN "queued" ELSE "draft",
     anonymize_instructors |-> anon,
     report_markdown |-> Null, strengths |-> Null, growth_opportunities |-> Null,
     metrics |-> NullMetrics,
     created_at |-> 1,
     processing_started_at |-> NoTime, processing_completed_at |-> NoTime]

\* ComparisonEvaluation(evaluation_id=eval_id, display_order=i, label=f"Session {i + 1}")
NewLinks(ids) ==
    [i \in 1 .. Len(ids) |->
        [evaluation_id |-> ids[i], display_order |-> i - 1, label |-> <<"Session ", i>>]]

\* "not evaluation.report_markdown"
NoReport(e) == e.report_markdown = Null \/ e.report_markdown = ""

\* the validation loop of create_comparison: the status of the first
\* evaluation id that is refused, 0 when all pass
ValidateEvaluations(ids) ==
    LET bad == {i \in 1 .. Len(ids) :
                   \/ ids[i] \notin DOMAIN evals
                   \/ evals[ids[i]].status # "completed"
                   \/ NoReport(evals[ids[i]])}
    IN  IF bad = {} THEN 0
        ELSE IF ids[CHOOSE i \in bad : \A j \in bad : i <= j] \notin DOMAIN evals THEN 404
        ELSE 400

\* the evaluation_ids of the requests (the schema admits 2 to 10 ids): the
\* first two evaluations, and a list that starts with an id no row has
EvaluationIdLists ==
    {<<1, 2>>, <<MissingId, 1>>}

\* "if len(v) < 2" and "if len(v) > 10"
MinEvaluations == 2
MaxEvaluations == 10

\* the field validator of evaluation_ids: TRUE when it returns v, FALSE when
\* it raises ValueError (the framework then answers 422 before the handler)
validate_evaluation_count(v) ==
    IF Len(v) < MinEvaluations THEN FALSE
    ELSE IF Len(v) > MaxEvaluations THEN FALSE
    ELSE TRUE

\* a request with one of the given evaluation_ids arrives: the schema
\* validates the body, then the handler validates the evaluations
CreateComparison_Request(lists) ==
    /\ nreq < MaxRequests
    /\ nreq' = nreq + 1
    /\ \E ids \in lists, anon \in {FALSE}, start \in BOOLEAN :
          IF ~validate_evaluation_count(ids)
          THEN /\ resp' = [kind |-> "create_comparison", code |-> 422, id |-> 0]
               /\ UNCHANGED reqs
          ELSE IF ValidateEvaluations(ids) = 0
          THEN /\ reqs' = Append(reqs, [NoReq EXCEPT !.kind = "create_comparison",
                                                     !.pc = "insert",
                                                     !.body = [evaluation_ids |-> ids,
                                                               anonymize_instructors |-> anon,
                                                               start_immediately |-> start]])
               /\ resp' = NoResp
          ELSE /\ resp' = [kind |-> "create_comparison",
                           code |-> ValidateEvaluations(ids), id |-> 0]
               /\ UNCHANGED reqs
    /\ UNCHANGED <<videos, users, evals, transcripts, comps, links, tasks, faults>>

CreateComparison_Begin == CreateComparison_Request(EvaluationIdLists)

\* db.add(comparison); commit; refresh
CreateComparison_Insert(r) ==
    /\ reqs[r].kind = "create_comparison" /\ reqs[r].pc = "insert"
    /\ LET id == NewId(comps)
       IN  /\ comps' = (id :> NewComparison("personal_performance",
                                            reqs[r].body.start_immediately,
                                            reqs[r].body.anonymize_instructors)) @@ comps
           /\ links' = (id :> <<>>) @@ links
           /\ reqs' = [reqs EXCEPT ![r].pc = "links", ![r].comp = id]
    /\ UNCHANGED <<videos, users, evals, transcripts, tasks, faults, nreq>>
    /\ resp' = NoResp

\* the commit of the join rows, then add_task when start_immediately; a
\* failing commit ends the request (500) before add_task
CreateComparison_Links(r) ==
    /\ reqs[r].kind = "create_comparison" /\ reqs[r].pc = "links"
    /\ \E ok \in BOOLEAN :
          /\ ~ok => Budget >= 1
          /\ faults' = IF ok THEN faults ELSE faults + 1
          /\ links' = IF ok THEN [links EXCEPT ![reqs[r].comp] = NewLinks(reqs[r].body.evaluation_ids)]
                      ELSE links
          /\ tasks' = IF ok /\ reqs[r].body.start_immediately
                      THEN Append(tasks, NewTask("comp", reqs[r].comp))
                      ELSE tasks
          /\ Respond(r, IF ok THEN 200 ELSE 500, reqs[r].comp)
    /\ UNCHANGED <<videos, users, evals, transcripts, comps, nreq>>

\* --------------------------------------------- POST /comparisons/{id}/start
\* the request arrives; the handler loads the comparison and checks "draft"
StartComparison_Begin ==
    /\ nreq < MaxRequests
    /\ nreq' = nreq + 1
    /\ \E c \in DOMAIN comps \cup {MissingId} :
          IF c \in DOMAIN comps /\ comps[c].status = "draft"
          THEN /\ reqs' = Append(reqs, [NoReq EXCEPT !.kind = "start_comparison",
                                                     !.pc = "commit", !.comp = c])
               /\ resp' = NoResp
          ELSE /\ resp' = [kind |-> "start_comparison",
                           code |-> IF c \in DOMAIN comps THEN 400 ELSE 404, id |-> c]
               /\ UNCHANGED reqs
    /\ UNCHANGED <<videos, users, evals, transcripts, comps, links, tasks, faults>>

\* comparison.status = "queued"; commit; add_task
StartComparison_Commit(r) ==
    /\ reqs[r].kind = "start_comparison" /\ reqs[r].pc = "commit"
    /\ comps' = [comps EXCEPT ![reqs[r].comp].status = "queued"]
    /\ tasks' = Append(tasks, NewTask("comp", reqs[r].comp))
    /\ Respond(r, 200, reqs[r].comp)
    /\ UNCHANGED <<videos, users, evals, transcripts, links, faults, nreq>>

\* ------------------------------------------------- run_comparison_pipeline
CommitComparison(tk) ==
    comps' = [comps EXCEPT ![tk.id] = Flush(@, tk.obj, tk.dirty)]

\* a validation that does not look at the report
ValidationError_ReportUnchecked(ls) ==
    LET bad == {i \in 1 .. Len(ls) :
                   \/ ls[i].evaluation_id \notin DOMAIN evals
                   \/ evals[ls[i].evaluation_id].status # "completed"}
        first == CHOOSE i \in bad : \A j \in bad : i <= j
        e == ls[first].evaluation_id
    IN  IF Len(ls) < 2 THEN Msg("Comparison requires at least 2 evaluations, found ", Len(ls))
        ELSE IF bad = {} THEN <<>>
        ELSE IF e \notin DOMAIN evals THEN Msg("Linked evaluation not found ", e)
        ELSE Msg("Evaluation is not completed ", e)

\* the first violation _load_evaluation_data finds, as the error message it
\* records; <<>> when the links pass
ValidationError(ls) ==
    LET bad == {i \in 1 .. Len(ls) :
                   \/ ls[i].evaluation_id \notin DOMAIN evals
                   \/ evals[ls[i].evaluation_id].status # "completed"
                   \/ NoReport(evals[ls[i].evaluation_id])}
        first == CHOOSE i \in bad : \A j \in bad : i <= j
        e == ls[first].evaluation_id
    IN  IF Len(ls) < 2 THEN Msg("Comparison requires at least 2 evaluations, found ", Len(ls))
        ELSE IF bad = {} THEN <<>>
        ELSE IF e \notin DOMAIN evals THEN Msg("Linked evaluation not found ", e)
        ELSE IF evals[e].status # "completed" THEN Msg("Evaluation is not completed ", e)
        ELSE Msg("Evaluation has no report ", e)

\* the instructor name of an analysis unit (lines 143-153)
InstructorName(anon, evaluation, link) ==
    IF evaluation.instructor_id # NullId /\ evaluation.instructor_id \in users
    THEN IF anon THEN <<"Instructor ", link.display_order + 1>>
         ELSE <<"display_name of ", evaluation.instructor_id>>
    ELSE <<"Unknown Instructor", 0>>

\* the analysis unit of one link (lines 155-171)
AnalysisUnit(anon, link) ==
    LET evaluation == evals[link.evaluation_id]
    IN  [label |-> IF link.label = <<>> THEN <<"Session ", link.display_order + 1>>
                   ELSE link.label,
         date |-> IF evaluation.video_id # NullId /\ evaluation.video_id \in DOMAIN videos
                  THEN "uploaded_at" ELSE "Not specified",
         instructor_name |-> InstructorName(anon, evaluation, link),
         report_markdown |-> evaluation.report_markdown,
         metrics |-> evaluation.metrics.keys]

\* comparison.status = "analyzing"; processing_started_at = now
SetComparisonAnalyzing(tk) ==
    [tk EXCEPT !.obj.status = "analyzing",
               !.obj.processing_started_at = tk.now,
               !.dirty = @ \cup {"status", "processing_started_at"},
               !.pc = "commit_analyzing"]

\* the lookup of the comparison and _load_evaluation_data, up to the first
\* commit.  A failing Comparison lookup leaves "comparison" unbound, as in
\* the evaluation pipeline; a failing query inside _load_evaluation_data is
\* handled by its except clause.
RunComparison_Load(t) ==
    /\ IsCompTask(t) /\ tasks[t].pc = "load"
    /\ \E out \in {"ok", "comparison_lookup_fails", "query_fails"} :
          /\ out # "ok" => Budget >= 1
          /\ faults' = IF out = "ok" THEN faults ELSE faults + 1
          /\ LET tk == [tasks[t] EXCEPT !.obj = comps[tasks[t].id]]
                 ls == links[tasks[t].id]
             IN  SetTask(t,
                   IF out = "comparison_lookup_fails" THEN Swallow(tasks[t])
                   ELSE IF tasks[t].id \notin DOMAIN comps THEN Return(tasks[t])
                   ELSE IF out = "query_fails"
                   THEN [MarkFailed(tk, Msg("Failed to load evaluations: ", DbError))
                           EXCEPT !.pc = "fail_inner"]
                   ELSE IF ValidationError(ls) # <<>>
                   THEN [MarkFailed(tk, ValidationError(ls)) EXCEPT !.pc = "fail_load"]
                   ELSE [SetComparisonAnalyzing(tk) EXCEPT
                            !.units = [i \in 1 .. Len(ls) |->
                                          AnalysisUnit(tk.obj.anonymize_instructors, ls[i])]])
    /\ UNCHANGED <<videos, users, evals, transcripts, comps, links, reqs, nreq>>
    /\ resp' = NoResp

\* the commit of a _fail_comparison call made by the validation, inside the
\* try block of _load_evaluation_data: its except clause handles a failure
RunComparison_FailLoad(t) ==
    /\ IsCompTask(t) /\ tasks[t].pc = "fail_load"
    /\ \E ok \in BOOLEAN, keep \in BOOLEAN :
          /\ ~ok => Budget >= 1
          /\ ok => keep
          /\ faults' = IF ok THEN faults ELSE faults + 1
          /\ IF ok THEN CommitComparison(tasks[t]) ELSE UNCHANGED comps
          /\ SetTask(t,
               IF ok THEN Return(tasks[t])
               ELSE [MarkFailed(AfterFailedCommit([tasks[t] EXCEPT !.fraised = @ + 1],
                                                  keep, comps[tasks[t].id]),
                                Msg("Failed to load evaluations: ", DbError))
                       EXCEPT !.pc = "fail_inner"])
    /\ UNCHANGED <<videos, users, evals, transcripts, links, reqs, nreq>>
    /\ resp' = NoResp

\* _run_comparison_analysis up to its commit
ComparisonAnalyzed(tk) ==
    [tk EXCEPT !.acalls = @ + 1,
               !.obj.report_markdown = "md",
               !.obj.strengths = "items",
               !.obj.growth_opportunities = "items",
               !.obj.metrics = MergedMetrics({"session_count", "comparison_generated"}),
               !.dirty = @ \cup {"report_markdown", "strengths",
                                 "growth_opportunities", "metrics"},
               !.pc = "commit_analysis"]

\* an analysis stage whose except clause returns without _fail_comparison
ComparisonAnalysisFailed_Unmarked(tk) == Return([tk EXCEPT !.acalls = @ + 1])

\* the except clause of _run_comparison_analysis (lines 221-227)
ComparisonAnalysisFailed(tk) ==
    [MarkFailed(tk, Msg("Analysis failed: ", GatewayError))
       EXCEPT !.acalls = @ + 1, !.gfail = "analysis", !.pc = "fail_inner"]

\* the keys of COMPARISON_PROMPT_BUILDERS
ComparisonTypes == {"personal_performance", "class_delivery", "program_evaluation"}

\* a comparison_type that is no key of COMPARISON_PROMPT_BUILDERS
UnknownType == "unknown_type"

\* f"Unknown comparison type: {comparison_type}. Expected one of: ..."
UnknownTypeError == "Unknown comparison type"

\* an analysis stage that lets the ValueError of analyze_comparison leave the pipeline
ComparisonUnknownType_Raised(tk) == [Return(tk) EXCEPT !.raised = TRUE]

\* "if not builder: raise ValueError" in analyze_comparison, before any
\* gateway call, caught by the except clause of _run_comparison_analysis
ComparisonUnknownType(tk) ==
    [MarkFailed(tk, Msg("Analysis failed: ", UnknownTypeError)) EXCEPT !.pc = "fail_inner"]

ComparisonCommitFailed(tk, keep, prefix) ==
    [MarkFailed(AfterFailedCommit(tk, keep, comps[tk.id]), Msg(prefix, DbError))
       EXCEPT !.pc = IF prefix = "" THEN "fail_outer" ELSE "fail_inner"]

\* line 58: commit of "analyzing", then the analysis stage
RunComparison_CommitAnalyzing(t) ==
    /\ IsCompTask(t) /\ tasks[t].pc = "commit_analyzing"
    /\ \E out \in {"ok", "commit_fails", "gateway_fails"}, keep \in BOOLEAN :
          /\ out # "ok" => Budget >= 1
          /\ out # "commit_fails" => keep
          /\ out = "gateway_fails" => tasks[t].obj.comparison_type \in ComparisonTypes
          /\ faults' = IF out = "ok" THEN faults ELSE faults + 1
          /\ IF out = "commit_fails"
             THEN /\ UNCHANGED comps
                  /\ SetTask(t, ComparisonCommitFailed(tasks[t], keep, ""))
             ELSE /\ CommitComparison(tasks[t])
                  /\ SetTask(t, IF tasks[t].obj.comparison_type \notin ComparisonTypes
                                THEN ComparisonUnknownType(Committed(tasks[t]))
                                ELSE IF out = "ok" THEN ComparisonAnalyzed(Committed(tasks[t]))
                                ELSE ComparisonAnalysisFailed(Committed(tasks[t])))
    /\ UNCHANGED <<videos, users, evals, transcripts, links, reqs, nreq>>
    /\ resp' = NoResp

ComparisonCommitThen(t, at, prefix, then) ==
    /\ IsCompTask(t) /\ tasks[t].pc = at
    /\ \E ok \in BOOLEAN, keep \in BOOLEAN :
          /\ ~ok => Budget >= 1
          /\ ok => keep
          /\ faults' = IF ok THEN faults ELSE faults + 1
          /\ IF ok
             THEN /\ CommitComparison(tasks[t])
                  /\ SetTask(t, Continue(then, Committed(tasks[t])))
             ELSE /\ UNCHANGED comps
                  /\ SetTask(t, ComparisonCommitFailed(tasks[t], keep, prefix))
    /\ UNCHANGED <<videos, users, evals, transcripts, links, reqs, nreq>>
    /\ resp' = NoResp

\* line 218: commit of the analysis; then status = "completed"
RunComparison_CommitAnalysis(t) ==
    ComparisonCommitThen(t, "commit_analysis", "Analysis failed: ", "SetCompleted")

\* line 74: commit of "completed"
RunComparison_CommitCompleted(t) ==
    ComparisonCommitThen(t, "commit_completed", "", "Return")

\* _fail_comparison's commit, reached from a stage's except clause
RunComparison_FailInner(t) ==
    /\ IsCompTask(t) /\ tasks[t].pc = "fail_inner"
    /\ \E ok \in BOOLEAN, keep \in BOOLEAN :
          /\ ~ok => Budget >= 1
          /\ ok => keep
          /\ faults' = IF ok THEN faults ELSE faults + 1
          /\ IF ok THEN CommitComparison(tasks[t]) ELSE UNCHANGED comps
          /\ SetTask(t, FailInnerTask(tasks[t], ok, keep, comps[tasks[t].id]))
    /\ UNCHANGED <<videos, users, evals, transcripts, links, reqs, nreq>>
    /\ resp' = NoResp

\* _fail_comparison's commit, reached from the pipeline's except clause
RunComparison_FailOuter(t) ==
    /\ IsCompTask(t) /\ tasks[t].pc = "fail_outer"
    /\ \E ok \in BOOLEAN :
          /\ ~ok => Budget >= 1
          /\ faults' = IF ok THEN faults ELSE faults + 1
          /\ IF ok THEN CommitComparison(tasks[t]) ELSE UNCHANGED comps
          /\ SetTask(t, FailOuterTask(tasks[t], ok))
    /\ UNCHANGED <<videos, users, evals, transcripts, links, reqs, nreq>>
    /\ resp' = NoResp

\* ------------------------------------------------------------ specification
\* an evaluation as a successful pipeline run leaves it
CompletedEvaluation(v, i) ==
    [NewEvaluation(v, i) EXCEPT !.status = "completed",
                                !.transcript_id = NullId,
                                !.report_markdown = "md",
                                !.strengths = "items",
                                !.growth_opportunities = "items",
                                !.metrics = MergedMetrics({"wpm"}),
                                !.processing_started_at = 2,
                                !.processing_completed_at = 5]

\* The service starts on a database that holds either NumVideos uploaded
\* videos, or NumSeeded videos evaluated earlier and a draft comparison of
\* the first two evaluations.
InitUploaded ==
    /\ videos = [v \in VideoIds |-> [upload_status |-> "uploaded", duration_seconds |-> Null]]
    /\ evals = <<>>
    /\ transcripts = <<>>
    /\ comps = <<>>
    /\ links = <<>>

InitEvaluated ==
    /\ videos = [v \in {SeededVideo(e) : e \in SeededIds} |->
                   [upload_status |-> "transcribed", duration_seconds |-> "set"]]
    /\ evals = [e \in SeededIds |->
                  [CompletedEvaluation(SeededVideo(e), 1) EXCEPT !.transcript_id = e]]
    /\ transcripts = [e \in SeededIds |-> [video_id |-> SeededVideo(e), status |-> "completed"]]
    /\ comps = (1 :> NewComparison("personal_performance", FALSE, FALSE))
    /\ links = (1 :> NewLinks(<<1, 2>>))

Init ==
    /\ InitUploaded \/ InitEvaluated
    /\ users = {1}
    /\ reqs = <<>>
    /\ nreq = 0
    /\ resp = NoResp
    /\ tasks = <<>>
    /\ faults = 0

Next ==
    \/ CreateEvaluation_Begin
    \/ CreateComparison_Begin
    \/ StartComparison_Begin
    \/ \E r \in 1 .. Len(reqs) :
          \/ CreateEvaluation_Check(r)
          \/ CreateEvaluation_Insert(r)
          \/ CreateComparison_Insert(r)
          \/ CreateComparison_Links(r)
          \/ StartComparison_Commit(r)
    \/ \E t \in 1 .. Len(tasks) :
          \/ RunEvaluation_Load(t)
          \/ RunEvaluation_CommitTranscribing(t)
          \/ RunEvaluation_CommitTranscript(t)
          \/ RunEvaluation_CommitAnalyzing(t)
          \/ RunEvaluation_CommitAnalysis(t)
          \/ RunEvaluation_CommitCompleted(t)
          \/ RunEvaluation_FailInner(t)
          \/ RunEvaluation_FailOuter(t)
          \/ RunComparison_Load(t)
          \/ RunComparison_FailLoad(t)
          \/ RunComparison_CommitAnalyzing(t)
          \/ RunComparison_CommitAnalysis(t)
          \/ RunComparison_CommitCompleted(t)
          \/ RunComparison_FailInner(t)
          \/ RunComparison_FailOuter(t)

Spec == Init /\ [][Next]_vars

\* ------------------------------------------- the comparison pipeline alone
\* One run of the comparison pipeline on a database written by other means
\* (the test fixtures insert their rows directly): a queued comparison with
\* any links, to evaluations in any condition the validation distinguishes.
SeededRows(e) ==
    {CompletedEvaluation(SeededVideo(e), i) : i \in {NullId, 1, GhostUser}}
    \cup {NewEvaluation(SeededVideo(e), 1),
          [CompletedEvaluation(SeededVideo(e), 1) EXCEPT !.report_markdown = Null]}

SeededTables ==
    UNION {{tb \in [S -> UNION {SeededRows(e) : e \in S}] : \A e \in S : tb[e] \in SeededRows(e)}
           : S \in SUBSET SeededIds}

SeededLinks == UNION {[1 .. n -> SeededIds] : n \in 0 .. MaxLinks}

InitSeeded ==
    /\ videos = (SeededVideo(1) :> [upload_status |-> "transcribed", duration_seconds |-> "set"])
    /\ users = {1}
    /\ evals \in SeededTables
    /\ transcripts = <<>>
    /\ \E anon \in BOOLEAN, type \in {"personal_performance", UnknownType} :
          comps = (1 :> NewComparison(type, TRUE, anon))
    /\ \E ids \in SeededLinks : links = (1 :> NewLinks(ids))
    /\ reqs = <<>>
    /\ nreq = 0
    /\ resp = NoResp
    /\ tasks = <<NewTask("comp", 1)>>
    /\ faults = 0

NextSeeded ==
    \E t \in 1 .. Len(tasks) :
        \/ RunComparison_Load(t)
        \/ RunComparison_FailLoad(t)
        \/ RunComparison_CommitAnalyzing(t)
        \/ RunComparison_CommitAnalysis(t)
        \/ RunComparison_CommitCompleted(t)
        \/ RunComparison_FailInner(t)
        \/ RunComparison_FailOuter(t)

SpecSeeded == InitSeeded /\ [][NextSeeded]_vars

\* ---------------------------------------------- create-comparison alone
\* Requests to create a comparison of the evaluated videos, with every shape
\* of evaluation_ids the schema and the handler distinguish: too few, too
\* many, repeated, in either order, and naming an evaluation no row has.
CreateIdLists ==
    {<<>>, <<1>>, <<1, 1>>, <<1, 2>>, <<2, 1>>, <<MissingId, 1>>,
     [i \in 1 .. MaxEvaluations + 1 |-> 1 + (i % 2)]}

InitCreate ==
    /\ InitEvaluated
    /\ users = {1}
    /\ reqs = <<>>
    /\ nreq = 0
    /\ resp = NoResp
    /\ tasks = <<>>
    /\ faults = 0

NextCreate ==
    \/ CreateComparison_Request(CreateIdLists)
    \/ \E r \in 1 .. Len(reqs) :
          \/ CreateComparison_Insert(r)
          \/ CreateComparison_Links(r)

SpecCreate == InitCreate /\ [][NextCreate]_vars

\* ------------------------------------------------ DELETE /videos/{video_id}
\* The load stage of run_evaluation while videos are deleted.  The two
\* lookups of the pipeline are two awaits: a deletion may commit between
\* them.  This specification follows each run to the end of its load stage.
QueuedIds == 1 .. NumQueued

\* ON DELETE CASCADE: the rows that reference video v go with it
WithoutVideo(rows, v) ==
    [r \in {x \in DOMAIN rows : rows[x].video_id # v} |-> rows[r]]

\* delete_video: 404 when the video is absent, else the commit of the DELETE
DeleteVideo ==
    /\ nreq < MaxRequests
    /\ nreq' = nreq + 1
    /\ \E v \in QueuedIds \cup {MissingId} :
          IF v \in DOMAIN videos
          THEN /\ videos' = [x \in DOMAIN videos \ {v} |-> videos[x]]
               /\ evals' = WithoutVideo(evals, v)
               /\ transcripts' = WithoutVideo(transcripts, v)
               /\ resp' = [kind |-> "delete_video", code |-> 200, id |-> v]
          ELSE /\ resp' = [kind |-> "delete_video", code |-> 404, id |-> 0]
               /\ UNCHANGED <<videos, evals, transcripts>>
    /\ UNCHANGED <<users, comps, links, reqs, tasks, faults>>

\* lines 44-51: the Evaluation lookup
RunEvaluation_LoadEvaluation(t) ==
    /\ IsEvalTask(t) /\ tasks[t].pc = "load"
    /\ \E ok \in BOOLEAN :
          /\ ~ok => Budget >= 1
          /\ faults' = IF ok THEN faults ELSE faults + 1
          /\ SetTask(t,
                IF ~ok THEN Swallow(tasks[t])
                ELSE IF tasks[t].id \notin DOMAIN evals THEN Return(tasks[t])
                ELSE [tasks[t] EXCEPT !.obj = evals[tasks[t].id], !.pc = "load_video"])
    /\ UNCHANGED <<videos, users, evals, transcripts, comps, links, reqs, nreq>>
    /\ resp' = NoResp

\* lines 53-62: the Video lookup and what follows it
RunEvaluation_LoadVideo(t) ==
    /\ IsEvalTask(t) /\ tasks[t].pc = "load_video"
    /\ \E ok \in BOOLEAN :
          /\ ~ok => Budget >= 1
          /\ faults' = IF ok THEN faults ELSE faults + 1
          /\ SetTask(t,
                IF ~ok
                THEN [MarkFailed(tasks[t], Msg("", DbError)) EXCEPT !.pc = "fail_outer"]
                ELSE IF tasks[t].obj.video_id \notin DOMAIN videos
                THEN VideoNotFound(tasks[t])
                ELSE SetTranscribing(tasks[t]))
    /\ UNCHANGED <<videos, users, evals, transcripts, comps, links, reqs, nreq>>
    /\ resp' = NoResp

InitDelete ==
    /\ videos = [v \in QueuedIds |-> [upload_status |-> "uploaded", duration_seconds |-> Null]]
    /\ users = {1}
    /\ evals = [e \in QueuedIds |-> NewEvaluation(e, 1)]
    /\ transcripts = <<>>
    /\ comps = <<>>
    /\ links = <<>>
    /\ reqs = <<>>
    /\ nreq = 0
    /\ resp = NoResp
    /\ tasks = [e \in QueuedIds |-> NewTask("eval", e)]
    /\ faults = 0

NextDelete ==
    \/ DeleteVideo
    \/ \E t \in 1 .. Len(tasks) :
          \/ RunEvaluation_LoadEvaluation(t)
          \/ RunEvaluation_LoadVideo(t)
          \/ RunEvaluation_FailInner(t)
          \/ RunEvaluation_FailOuter(t)

SpecDelete == InitDelete /\ [][NextDelete]_vars

\* ------------------------------------- the aggregate metrics of a comparison
\* _extract_comparison_metrics is a pure function of evaluations_data.  A
\* metric value is written in tenths (1425 is 142.5); the values used are
\* multiples of 0.5, which the floats of the code hold exactly.
ComparisonMetricKeys == {"wpm", "pauses_per_10min", "filler_words_per_min",
                         "questions_per_5min", "tangent_percentage"}

\* ev.get("metrics") and key in ev["metrics"]
Provides(ev, key) ==
    /\ ev.has_metrics
    /\ DOMAIN ev.metrics # {}
    /\ key \in DOMAIN ev.metrics

\* [ev["metrics"][key] for ev in evaluations_data if ...]
RECURSIVE ValuesFrom(_, _)
ValuesFrom(data, key) ==
    IF data = <<>> THEN <<>>
    ELSE (IF Provides(Head(data), key) THEN <<Head(data).metrics[key]>> ELSE <<>>)
         \o ValuesFrom(Tail(data), key)

\* sum(values)
RECURSIVE Sum(_)
Sum(values) == IF values = <<>> THEN 0 ELSE Head(values) + Sum(Tail(values))

\* round(total / n, 1), in tenths: the nearest tenth, a tie going to the even one
RoundAvg(total, n) ==
    LET q == total \div n
        r == total % n
    IN  IF 2 * r < n THEN q
        ELSE IF 2 * r > n THEN q + 1
        ELSE IF q % 2 = 0 THEN q ELSE q + 1

\* min(values), max(values)
MinValue(values) ==
    CHOOSE x \in {values[i] : i \in 1 .. Len(values)} :
        \A i \in 1 .. Len(values) : x <= values[i]
MaxValue(values) == Max({values[i] : i \in 1 .. Len(values)})

\* a comparison that counts a change of exactly 5% as a direction
TrendOf_Inclusive(values) ==
    LET mid    == Len(values) \div 2
        first  == Sum(SubSeq(values, 1, mid))
        second == Sum(SubSeq(values, mid + 1, Len(values)))
        rest   == Len(values) - mid
    IN  IF second * mid * 100 >= first * rest * 105 THEN "increasing"
        ELSE IF second * mid * 100 <= first * rest * 95 THEN "decreasing"
        ELSE "stable"

\* lines 199-206: second_half > first_half * 1.05, second_half < first_half
\* * 0.95, with first_half = first / mid and second_half = second / rest,
\* both sides multiplied by 100 * mid * rest
TrendOf(values) ==
    LET mid    == Len(values) \div 2
        first  == Sum(SubSeq(values, 1, mid))
        second == Sum(SubSeq(values, mid + 1, Len(values)))
        rest   == Len(values) - mid
    IN  IF second * mid * 100 > first * rest * 105 THEN "increasing"
        ELSE IF second * mid * 100 < first * rest * 95 THEN "decreasing"
        ELSE "stable"

\* a trend computed for a single value too
HasTrend_Single(values) == Len(values) >= 1

\* "if len(values) >= 2"
HasTrend(values) == Len(values) >= 2

\* the dict _extract_comparison_metrics returns; the key f"{key}_avg" is
\* written <<key, "_avg">>
extract_comparison_metrics(data) ==
    LET provided == {k \in ComparisonMetricKeys : ValuesFrom(data, k) # <<>>}
        trended  == {k \in provided : HasTrend(ValuesFrom(data, k))}
        names    == {<<"session_count", "">>, <<"comparison_generated", "">>}
                    \cup {<<k, sfx>> : k \in provided, sfx \in {"_avg", "_min", "_max"}}
                    \cup {<<k, "_trend">> : k \in trended}
    IN  [nm \in names |->
           LET values == ValuesFrom(data, nm[1])
           IN  CASE nm[1] = "session_count" -> Len(data)
                 [] nm[1] = "comparison_generated" -> TRUE
                 [] nm[2] = "_avg" -> RoundAvg(Sum(values), Len(values))
                 [] nm[2] = "_min" -> MinValue(values)
                 [] nm[2] = "_max" -> MaxValue(values)
                 [] nm[2] = "_trend" -> TrendOf(values)]

\* the calls: evaluations_data of up to MaxUnits units, each without metrics,
\* with the empty dict, or with "wpm" and "tangent_percentage" or one of them
WpmValues == {950, 1000, 1050, 1100}
TangentValues == {1000, 1100}

UnitMetrics ==
    {[has_metrics |-> FALSE, metrics |-> <<>>], [has_metrics |-> TRUE, metrics |-> <<>>]}
    \cup {[has_metrics |-> TRUE, metrics |-> ("wpm" :> w)] : w \in WpmValues}
    \cup {[has_metrics |-> TRUE, metrics |-> ("tangent_percentage" :> g)] : g \in TangentValues}
    \cup {[has_metrics |-> TRUE, metrics |-> ("wpm" :> w) @@ ("tangent_percentage" :> g)] :
             w \in WpmValues, g \in TangentValues}

EvaluationsData == UNION {[1 .. n -> UnitMetrics] : n \in 0 .. MaxUnits}

InitMetrics ==
    /\ videos = <<>> /\ users = {} /\ evals = <<>> /\ transcripts = <<>>
    /\ comps = <<>> /\ links = <<>>
    /\ reqs = <<>> /\ nreq = 0 /\ resp = NoResp /\ faults = 0
    /\ \E data \in EvaluationsData :
          tasks = <<[NoTask EXCEPT !.kind = "extract", !.pc = "call", !.units = data]>>

\* the call returns its dict
ExtractComparisonMetrics(t) ==
    /\ tasks[t].kind = "extract" /\ tasks[t].pc = "call"
    /\ SetTask(t, [tasks[t] EXCEPT !.pc = "done",
                                   !.obj = extract_comparison_metrics(tasks[t].units)])
    /\ UNCHANGED <<videos, users, evals, transcripts, comps, links, reqs, nreq, resp, faults>>

NextMetrics == \E t \in 1 .. Len(tasks) : ExtractComparisonMetrics(t)

SpecMetrics == InitMetrics /\ [][NextMetrics]_vars

\* ------------------------------------- the sections of a comparison report
\* A report is the sequence of its "## " sections; a section is its title and
\* the items ("**title**" followed by a body) found in its text.
StrengthTitles == <<"Cross-Session Strengths", "Strengths Across the Program",
                    "Best Practices to Share">>

GrowthTitles == <<"Cross-Session Growth Opportunities", "Areas for Improvement",
                  "Common Delivery Gaps">>

SectionTitles ==
    {StrengthTitles[i] : i \in 1 .. 3} \cup {GrowthTitles[i] : i \in 1 .. 3}
    \cup {"Executive Summary"}

ItemLists == {<<>>, <<"item a">>, <<"item b">>}

Reports ==
    UNION {[1 .. n -> [title : SectionTitles, items : ItemLists]] : n \in 0 .. MaxSections}

\* re.search finds the first section with the title; no section, no items
extract_sections(report, section_title) ==
    LET hits == {i \in 1 .. Len(report) : report[i].title = section_title}
    IN  IF hits = {} THEN <<>>
        ELSE report[CHOOSE i \in hits : \A j \in hits : i <= j].items

\* a fallback that prefers the last title
WithFallbacks_LastFirst(report, titles) ==
    LET c == extract_sections(report, titles[3])
        b == extract_sections(report, titles[2])
    IN  IF c # <<>> THEN c
        ELSE IF b # <<>> THEN b
        ELSE extract_sections(report, titles[1])

\* "x = extract(t1); if not x: x = extract(t2); if not x: x = extract(t3)"
WithFallbacks(report, titles) ==
    LET a == extract_sections(report, titles[1])
        b == extract_sections(report, titles[2])
    IN  IF a # <<>> THEN a
        ELSE IF b # <<>> THEN b
        ELSE extract_sections(report, titles[3])

InitSections ==
    /\ videos = <<>> /\ users = {} /\ evals = <<>> /\ transcripts = <<>>
    /\ comps = <<>> /\ links = <<>>
    /\ reqs = <<>> /\ nreq = 0 /\ resp = NoResp /\ faults = 0
    /\ \E report \in Reports :
          tasks = <<[NoTask EXCEPT !.kind = "sections", !.pc = "call", !.units = report]>>

\* analyze_comparison after the gateway has returned the report
AnalyzeComparison_Extract(t) ==
    /\ tasks[t].kind = "sections" /\ tasks[t].pc = "call"
    /\ SetTask(t, [tasks[t] EXCEPT
                     !.pc = "done",
                     !.obj = [strengths |-> WithFallbacks(tasks[t].units, StrengthTitles),
                              growth_opportunities |->
                                  WithFallbacks(tasks[t].units, GrowthTitles)]])
    /\ UNCHANGED <<videos, users, evals, transcripts, comps, links, reqs, nreq, resp, faults>>

NextSections == \E t \in 1 .. Len(tasks) : AnalyzeComparison_Extract(t)

SpecSections == InitSections /\ [][NextSections]_vars

\* ------------------------------------------------------------------ claims
EvalTasks == {t \in 1 .. Len(tasks) : tasks[t].kind = "eval"}
CompTasks == {t \in 1 .. Len(tasks) : tasks[t].kind = "comp"}
Returned(t) == tasks[t].pc = "done"

\* C1, as claimed: once run_evaluation has returned, the persisted status of
\* its evaluation is completed or failed, whatever failed during the run.
C1_AlwaysTerminal ==
    \A t \in EvalTasks :
        (Returned(t) /\ tasks[t].id \in DOMAIN evals)
            => evals[tasks[t].id].status \in {"completed", "failed"}

\* C1, amended: once run_evaluation has returned, the persisted status is
\* completed or failed, unless the run ended by discarding a failure of its
\* own failure handling (the Evaluation lookup or the fail-handler's last
\* commit failed).
C1_TerminalUnlessDropped ==
    \A t \in EvalTasks :
        (Returned(t) /\ tasks[t].id \in DOMAIN evals)
            => (tasks[t].dropped \/ evals[tasks[t].id].status \in {"completed", "failed"})

\* a run whose first fail-handler commit failed and whose second one went
\* through has returned and left the evaluation failed
C1_Witness ==
    \E t \in EvalTasks :
        /\ Returned(t) /\ ~tasks[t].dropped
        /\ tasks[t].fails = 2 /\ tasks[t].fraised = 1
        /\ evals[tasks[t].id].status = "failed"

\* C2: the persisted status of an evaluation only moves along
\* queued -> transcribing -> analyzing -> completed, or from a non-terminal
\* status to failed; a new evaluation starts queued.
C2_Forward(a, b) ==
    \/ a = b
    \/ <<a, b>> \in {<<"queued", "transcribing">>, <<"transcribing", "analyzing">>,
                    <<"analyzing", "completed">>}
    \/ a \in {"queued", "transcribing", "analyzing"} /\ b = "failed"

C3_NeverRaises ==
    \A t \in 1 .. Len(tasks) : tasks[t].raised = FALSE

\* a run has returned after its fail-handler failed twice (double failure)
C3_Witness ==
    \E t \in 1 .. Len(tasks) :
        Returned(t) /\ tasks[t].dropped /\ tasks[t].fails >= 2
                    /\ tasks[t].fraised = tasks[t].fails

\* C4, as claimed: at most one evaluation that is not failed per video.
C4_OnePerVideo ==
    \A v \in DOMAIN videos :
        Cardinality({e \in DOMAIN evals :
                        evals[e].video_id = v /\ evals[e].status # "failed"}) <= 1

\* C5, as claimed: a create-evaluation request for a video that has an
\* evaluation in a status other than failed ends with 409, creates no
\* evaluation and schedules no run; otherwise it creates exactly one queued
\* evaluation and schedules exactly one run for it.
C5_HasLive(v) ==
    \E e \in DOMAIN evals : evals[e].video_id = v /\ evals[e].status # "failed"

C5_CreateContract ==
    [][\A r \in 1 .. Len(reqs) :
          (reqs[r].kind = "create_evaluation" /\ reqs' = Remove(reqs, r))
              => IF C5_HasLive(reqs[r].video)
                 THEN resp'.code = 409 /\ evals' = evals /\ tasks' = tasks
                 ELSE /\ resp'.code = 200
                      /\ Cardinality(DOMAIN evals' \ DOMAIN evals) = 1
                      /\ \A e \in DOMAIN evals : evals'[e] = evals[e]
                      /\ \A e \in DOMAIN evals' \ DOMAIN evals :
                            /\ evals'[e].status = "queued"
                            /\ evals'[e].video_id = reqs[r].video
                            /\ tasks' = Append(tasks, NewTask("eval", e))]_vars

\* C6, as claimed: the persisted status of a comparison only moves along
\* draft -> queued -> analyzing -> completed, or to failed.
C6_Forward(a, b) ==
    \/ a = b
    \/ <<a, b>> \in {<<"draft", "queued">>, <<"queued", "analyzing">>,
                    <<"analyzing", "completed">>}
    \/ a \in {"draft", "queued", "analyzing"} /\ b = "failed"

C6_ComparisonForward ==
    [][\A c \in DOMAIN comps :
          c \in DOMAIN comps' /\ C6_Forward(comps[c].status, comps'[c].status)]_vars

\* the links of comparison c do not pass the validation of run_comparison
C7_Invalid(c) ==
    \/ Len(links[c]) < 2
    \/ \E i \in 1 .. Len(links[c]) :
          LET e == links[c][i].evaluation_id
          IN  \/ e \notin DOMAIN evals
              \/ evals[e].status # "completed"
              \/ evals[e].report_markdown = Null

\* C7, as claimed: a run on a comparison whose links do not pass the
\* validation never invokes the Analysis Gateway and ends with the
\* comparison failed.
C7_InvalidEndsFailed ==
    \A t \in CompTasks :
        C7_Invalid(tasks[t].id)
            => /\ tasks[t].acalls = 0
               /\ Returned(t) => comps[tasks[t].id].status = "failed"

\* C7, amended: such a run never invokes the Analysis Gateway, and it ends
\* with the comparison failed unless it ended by discarding a failure of its
\* own failure handling (the Comparison lookup or the fail-handler's last
\* commit failed).
C7_InvalidFailsUnlessDropped ==
    \A t \in CompTasks :
        C7_Invalid(tasks[t].id)
            => /\ tasks[t].acalls = 0
               /\ Returned(t) => (tasks[t].dropped \/ comps[tasks[t].id].status = "failed")

\* a run on two or more links, one of them to an evaluation that is there
\* but does not pass, has returned and left the comparison failed
C7_Witness ==
    \E t \in CompTasks :
        /\ Returned(t) /\ ~tasks[t].dropped /\ tasks[t].acalls = 0
        /\ Len(links[tasks[t].id]) >= 2
        /\ \E i \in 1 .. Len(links[tasks[t].id]) :
              LET e == links[tasks[t].id][i].evaluation_id
              IN  e \in DOMAIN evals /\ evals[e].status = "completed"
                                     /\ evals[e].report_markdown = Null
        /\ comps[tasks[t].id].status = "failed"

C8_Row(tk) == IF tk.kind = "eval" THEN evals[tk.id] ELSE comps[tk.id]

C8_FailPcs == {"fail_load", "fail_inner", "fail_outer"}

\* C8, as claimed: no call of the fail-handler raises, and after two calls
\* with messages m1 then m2 the entity is failed with metrics {error: m2}.
C8_NeverRaises ==
    \A t \in 1 .. Len(tasks) :
        /\ tasks[t].fraised = 0
        /\ (Returned(t) /\ tasks[t].fails >= 2)
              => /\ C8_Row(tasks[t]).status = "failed"
                 /\ C8_Row(tasks[t]).metrics.error = tasks[t].msg

\* C8, amended: a call of the fail-handler raises only when its commit
\* fails, and then changes nothing; a call whose commit succeeds (the second
\* call with m2 after a first call with m1 included) leaves the entity
\* failed with metrics exactly {error: <its message>}.
C8_LastWriteWins ==
    [][\A t \in 1 .. Len(tasks) :
          (tasks[t].pc \in C8_FailPcs /\ tasks'[t] # tasks[t])
              => IF tasks'[t].fraised = tasks[t].fraised
                 THEN /\ C8_Row(tasks[t])'.status = "failed"
                      /\ C8_Row(tasks[t])'.metrics =
                            [isset |-> TRUE, keys |-> {"error"}, error |-> tasks[t].msg]
                      /\ C8_Row(tasks[t])'.processing_completed_at # NoTime
                 ELSE /\ faults' = faults + 1
                      /\ C8_Row(tasks[t])' = C8_Row(tasks[t])]_vars

\* the fail-handler was called twice in a run, with different messages; the
\* first call raised, the second did not, and the entity is failed with the
\* second message
C8_Witness ==
    \E t \in 1 .. Len(tasks) :
        /\ Returned(t) /\ tasks[t].fails = 2 /\ tasks[t].fraised = 1
        /\ tasks[t].msg = <<"", "db error">>
        /\ C8_Row(tasks[t]).status = "failed"
        /\ C8_Row(tasks[t]).metrics.error = <<"", "db error">>

\* C9, as claimed: when anonymize_instructors is set, every analysis unit a
\* run assembles is named "Instructor n", n = display_order + 1 of its link.
C9_AllAnonymized ==
    \A t \in CompTasks :
        (tasks[t].id \in DOMAIN comps /\ comps[tasks[t].id].anonymize_instructors)
            => \A i \in 1 .. Len(tasks[t].units) :
                  tasks[t].units[i].instructor_name =
                      <<"Instructor ", links[tasks[t].id][i].display_order + 1>>

\* C10: a completed evaluation has its report, strengths and growth
\* opportunities, and metrics that hold the four usage keys, coaching
\* metrics and no error.
C10_CompletedHasReport ==
    \A e \in DOMAIN evals :
        evals[e].status = "completed"
            => /\ evals[e].report_markdown # Null
               /\ evals[e].strengths # Null
               /\ evals[e].growth_opportunities # Null
               /\ evals[e].metrics.isset
               /\ {"analysis_input_tokens", "analysis_output_tokens",
                   "analysis_processing_seconds", "analysis_model"}
                      \subseteq evals[e].metrics.keys
               /\ evals[e].metrics.keys \subseteq
                      {"analysis_input_tokens", "analysis_output_tokens",
                       "analysis_processing_seconds", "analysis_model",
                       "wpm", "pauses_per_10min", "filler_words_per_min",
                       "questions_per_5min", "tangent_percentage"}

\* a run has completed an evaluation whose report yielded a coaching metric
C10_Witness ==
    \E t \in EvalTasks :
        /\ Returned(t) /\ tasks[t].acalls = 1
        /\ evals[tasks[t].id].status = "completed"
        /\ "wpm" \in evals[tasks[t].id].metrics.keys

C12_FailedIffError ==
    /\ \A e \in DOMAIN evals :
          /\ evals[e].status = "failed" <=> "error" \in evals[e].metrics.keys
          /\ evals[e].status = "failed" => evals[e].metrics.keys = {"error"}
    /\ \A c \in DOMAIN comps :
          /\ comps[c].status = "failed" <=> "error" \in comps[c].metrics.keys
          /\ comps[c].status = "failed" => comps[c].metrics.keys = {"error"}

\* C13, as claimed: a comparison leaves draft only by a start request, which
\* makes it queued and schedules one run; a start request that finds the
\* comparison in another status changes nothing, schedules nothing and is
\* answered 400.
C13_StartOnlyFromDraft ==
    [][/\ \A c \in DOMAIN comps :
             (comps[c].status = "draft" /\ comps'[c] # comps[c])
                 => /\ \E r \in 1 .. Len(reqs) :
                          /\ reqs[r].kind = "start_comparison" /\ reqs[r].comp = c
                          /\ reqs' = Remove(reqs, r)
                    /\ comps'[c] = [comps[c] EXCEPT !.status = "queued"]
                    /\ tasks' = Append(tasks, NewTask("comp", c))
       /\ \A r \in 1 .. Len(reqs) :
             (/\ reqs[r].kind = "start_comparison" /\ reqs' = Remove(reqs, r)
              /\ comps[reqs[r].comp].status # "draft")
                 => resp'.code = 400 /\ comps' = comps /\ tasks' = tasks]_vars

\* C14, as claimed: the step in which run_comparison returns leaves the
\* comparison completed or failed.
C14_ReturnsTerminal ==
    [][\A t \in CompTasks :
          (tasks[t].pc # "done" /\ tasks'[t].pc = "done" /\ tasks[t].id \in DOMAIN comps)
              => comps'[tasks[t].id].status \in {"completed", "failed"}]_vars

\* C14, amended: the step in which run_comparison returns leaves the
\* comparison completed or failed, unless the run ends by discarding a failure
\* of its own failure handling (the Comparison lookup or the fail-handler's
\* last commit failed).
C14_ReturnsTerminalUnlessDropped ==
    [][\A t \in CompTasks :
          (tasks[t].pc # "done" /\ tasks'[t].pc = "done" /\ tasks[t].id \in DOMAIN comps)
              => \/ tasks'[t].dropped
                 \/ comps'[tasks[t].id].status \in {"completed", "failed"}]_vars

\* a run of the comparison pipeline has called the gateway, returned and
\* left the comparison completed
C14_Witness ==
    \E t \in CompTasks :
        /\ Returned(t) /\ ~tasks[t].dropped /\ tasks[t].acalls = 1
        /\ comps[tasks[t].id].status = "completed"
        /\ comps[tasks[t].id].report_markdown # Null

\* C15: every comparison that create-comparison creates references 2 to 10
\* distinct evaluations: a request with fewer than 2, more than 10 or repeated
\* evaluation ids is never admitted to the insert, and when the request
\* answers 200 the links of its comparison carry display_order 0..n-1 in
\* request order with pairwise different evaluation ids.
C15_Distinct(ids) ==
    /\ Len(ids) >= 2 /\ Len(ids) <= 10
    /\ \A i, j \in 1 .. Len(ids) : i # j => ids[i] # ids[j]

C15_CreatesDistinctLinks ==
    [][/\ \A c \in DOMAIN comps' \ DOMAIN comps :
             \E r \in 1 .. Len(reqs') :
                /\ reqs'[r].comp = c
                /\ C15_Distinct(reqs'[r].body.evaluation_ids)
       /\ (resp'.kind = "create_comparison" /\ resp'.code = 200) =>
             LET l == links'[resp'.id]
             IN  /\ C15_Distinct([i \in 1 .. Len(l) |-> l[i].evaluation_id])
                 /\ \A i \in 1 .. Len(l) : l[i].display_order = i - 1
                 /\ \E r \in 1 .. Len(reqs) :
                       /\ reqs[r].comp = resp'.id
                       /\ [i \in 1 .. Len(l) |-> l[i].evaluation_id] = reqs[r].body.evaluation_ids
      ]_vars

\* C18, as claimed: when the comparison_type is none of the three known
\* types, the analysis stage makes no gateway call and the comparison
\* pipeline raises the unknown-type error.
C18_AnalysisStep(t) ==
    /\ t \in CompTasks
    /\ tasks[t].pc = "commit_analyzing"
    /\ tasks[t].obj.comparison_type \notin ComparisonTypes
    /\ tasks'[t] # tasks[t]
    /\ tasks'[t].pc # "fail_outer"

C18_PipelineRaises ==
    [][\A t \in 1 .. Len(tasks) :
          C18_AnalysisStep(t) =>
             /\ tasks'[t].acalls = tasks[t].acalls
             /\ tasks'[t].raised]_vars

\* C18, amended: the analysis stage makes no gateway call, and the pipeline
\* does not raise: the stage's except clause marks the comparison failed
\* with "Analysis failed: Unknown comparison type ..." and the run goes on
\* to _fail_comparison's commit.
C18_PipelineMarksFailed ==
    [][\A t \in 1 .. Len(tasks) :
          /\ ~tasks'[t].raised
          /\ C18_AnalysisStep(t) =>
                /\ tasks'[t].acalls = tasks[t].acalls
                /\ tasks'[t].obj.status = "failed"
                /\ tasks'[t].obj.metrics =
                      ErrorMetrics(Msg("Analysis failed: ", UnknownTypeError))
                /\ tasks'[t].pc = "fail_inner"]_vars

\* a run on a comparison of unknown type has returned without raising and
\* without a gateway call, and the comparison is failed with that message
C18_Witness ==
    \E t \in CompTasks :
        /\ Returned(t) /\ ~tasks[t].raised /\ tasks[t].acalls = 0
        /\ comps[tasks[t].id].comparison_type \notin ComparisonTypes
        /\ comps[tasks[t].id].status = "failed"
        /\ comps[tasks[t].id].metrics =
              ErrorMetrics(Msg("Analysis failed: ", UnknownTypeError))

\* C16: for each tracked metric with at least 2 values, taken in display
\* order from the evaluations that provide it, the trend is increasing exactly
\* when the mean of the last n - floor(n/2) values is strictly greater than
\* 1.05 times the mean of the first floor(n/2) values, decreasing exactly when
\* it is strictly less than 0.95 times that mean, and stable otherwise: a
\* change of exactly +5% or -5% is stable, [142.5, 155.0] is increasing and
\* [150.0, 151.0] is stable.
ExtractCalls == {t \in 1 .. Len(tasks) : tasks[t].kind = "extract" /\ tasks[t].pc = "done"}

\* mean(last n - h values) * 100 compared with pct * mean(first h values),
\* both sides multiplied by h * (n - h)
C16_Last(values) ==
    Sum(SubSeq(values, Len(values) \div 2 + 1, Len(values))) * (Len(values) \div 2) * 100
C16_First(values, pct) ==
    Sum(SubSeq(values, 1, Len(values) \div 2)) * (Len(values) - Len(values) \div 2) * pct

C16_Wpm(values) ==
    [i \in 1 .. Len(values) |-> [has_metrics |-> TRUE, metrics |-> ("wpm" :> values[i])]]

C17_Providers(data, key) ==
    {i \in 1 .. Len(data) : data[i].has_metrics /\ key \in DOMAIN data[i].metrics}

C17_Aggregates ==
    \A t \in ExtractCalls :
        LET data == tasks[t].units
            m    == tasks[t].obj
        IN  /\ m[<<"session_count", "">>] = Len(data)
            /\ \A key \in ComparisonMetricKeys :
                  LET ps == C17_Providers(data, key)
                      vs == {data[i].metrics[key] : i \in ps}
                  IN  /\ \A sfx \in {"_avg", "_min", "_max"} :
                            <<key, sfx>> \in DOMAIN m <=> Cardinality(ps) >= 1
                      /\ <<key, "_trend">> \in DOMAIN m <=> Cardinality(ps) >= 2
                      /\ ps # {} => /\ m[<<key, "_min">>] \in vs
                                    /\ m[<<key, "_max">>] \in vs
                                    /\ \A v \in vs : m[<<key, "_min">>] <= v /\ v <= m[<<key, "_max">>]
                      /\ ps = {} => \A nm \in DOMAIN m : nm[1] # key

\* a call on three units has returned: wpm from two of them (with a trend),
\* tangent_percentage from one (no trend), the other keys from none
C17_Witness ==
    \E t \in ExtractCalls :
        /\ Len(tasks[t].units) = 3
        /\ Cardinality(C17_Providers(tasks[t].units, "wpm")) = 2
        /\ Cardinality(C17_Providers(tasks[t].units, "tangent_percentage")) = 1
        /\ tasks[t].obj[<<"session_count", "">>] = 3
        /\ <<"wpm", "_trend">> \in DOMAIN tasks[t].obj
        /\ <<"tangent_percentage", "_max">> \in DOMAIN tasks[t].obj
        /\ <<"tangent_percentage", "_trend">> \notin DOMAIN tasks[t].obj

\* C19: has_transcript of GET evaluation is true in every state where the
\* evaluation's transcript_id is set or its status is analyzing or completed,
\* and false in every state where the run has not persisted a transcript:
\* queued, transcribing before the transcript's commit, or failed before the
\* transcription succeeded.
C19_FlagFollowsTranscript ==
    \A e \in DOMAIN evals :
        /\ (evals[e].transcript_id # NullId \/ evals[e].status \in {"analyzing", "completed"})
              => has_transcript(evals[e])
        /\ evals[e].status = "queued" => ~has_transcript(evals[e])
        /\ e \notin DOMAIN transcripts => ~has_transcript(evals[e])

\* a run whose transcription failed has returned: the evaluation is failed,
\* no transcript was persisted and the flag is false
C19_Witness ==
    \E t \in EvalTasks :
        /\ Returned(t) /\ tasks[t].tcalls = 1 /\ tasks[t].acalls = 0
        /\ evals[tasks[t].id].status = "failed"
        /\ tasks[t].id \notin DOMAIN transcripts
        /\ ~has_transcript(evals[tasks[t].id])

C21_Runs == {t \in EvalTasks : tasks[t].gfail = "transcription" /\ tasks[t].id \in DOMAIN evals}

C21_NoTranscriptNoAnalysis(t) ==
    /\ tasks[t].id \notin DOMAIN transcripts
    /\ evals[tasks[t].id].transcript_id = NullId
    /\ evals[tasks[t].id].status \notin {"analyzing", "completed"}
    /\ tasks[t].acalls = 0

C21_EndsTranscriptionFailed ==
    \A t \in C21_Runs :
        /\ C21_NoTranscriptNoAnalysis(t)
        /\ Returned(t) =>
              /\ evals[tasks[t].id].status = "failed"
              /\ evals[tasks[t].id].metrics =
                    ErrorMetrics(Msg("Transcription failed: ", GatewayError))

\* C21, amended: the evaluation ends failed with that message when the
\* fail-handler's commit succeeds; when it raises, the pipeline's except
\* clause records the commit's error instead, or nothing when its own
\* fail-handler call raises too.  No transcript, no analyzing, no analysis
\* call in every case.
C21_EndsFailedUnlessCommitFails ==
    \A t \in C21_Runs :
        /\ C21_NoTranscriptNoAnalysis(t)
        /\ Returned(t) =>
              IF tasks[t].fraised = 0
              THEN /\ evals[tasks[t].id].status = "failed"
                   /\ evals[tasks[t].id].metrics =
                         ErrorMetrics(Msg("Transcription failed: ", GatewayError))
              ELSE \/ tasks[t].dropped
                   \/ /\ evals[tasks[t].id].status = "failed"
                      /\ evals[tasks[t].id].metrics = ErrorMetrics(Msg("", DbError))

\* a run whose transcription gateway call failed has returned and its
\* evaluation is failed with the transcription message
C21_Witness ==
    \E t \in C21_Runs :
        /\ Returned(t) /\ tasks[t].fraised = 0 /\ tasks[t].tcalls = 1
        /\ evals[tasks[t].id].status = "failed"
        /\ evals[tasks[t].id].metrics =
              ErrorMetrics(Msg("Transcription failed: ", GatewayError))

\* C22, as claimed: when the Analysis Gateway fails in a run, the evaluation
\* ends failed with metrics.error = "Analysis failed: <cause>", what the
\* transcription stage committed is unchanged (the Transcript row, the
\* evaluation's transcript_id, the video's duration and transcribed status),
\* and the status never becomes completed.
C22_Runs == {t \in EvalTasks : tasks[t].gfail = "analysis" /\ tasks[t].id \in DOMAIN evals}

C22_TranscriptionKept(t) ==
    LET e == tasks[t].id
    IN  /\ e \in DOMAIN transcripts
        /\ transcripts[e] = [video_id |-> evals[e].video_id, status |-> "completed"]
        /\ evals[e].transcript_id = e
        /\ videos[evals[e].video_id] = [upload_status |-> "transcribed", duration_seconds |-> "set"]
        /\ evals[e].status # "completed"

C22_EndsAnalysisFailed ==
    \A t \in C22_Runs :
        /\ C22_TranscriptionKept(t)
        /\ Returned(t) =>
              /\ evals[tasks[t].id].status = "failed"
              /\ evals[tasks[t].id].metrics = ErrorMetrics(Msg("Analysis failed: ", GatewayError))

\* C22, amended: the message is the one recorded when the fail-handler's
\* commit succeeds; when it raises, the pipeline's except clause records the
\* commit's error instead, or nothing when its own call raises too.
C22_EndsFailedUnlessCommitFails ==
    \A t \in C22_Runs :
        /\ C22_TranscriptionKept(t)
        /\ Returned(t) =>
              IF tasks[t].fraised = 0
              THEN /\ evals[tasks[t].id].status = "failed"
                   /\ evals[tasks[t].id].metrics =
                         ErrorMetrics(Msg("Analysis failed: ", GatewayError))
              ELSE \/ tasks[t].dropped
                   \/ /\ evals[tasks[t].id].status = "failed"
                      /\ evals[tasks[t].id].metrics = ErrorMetrics(Msg("", DbError))

\* a run whose analysis gateway call failed has returned: the evaluation is
\* failed with the analysis message and still linked to its transcript
C22_Witness ==
    \E t \in C22_Runs :
        /\ Returned(t) /\ tasks[t].fraised = 0 /\ tasks[t].acalls = 1
        /\ evals[tasks[t].id].status = "failed"
        /\ evals[tasks[t].id].metrics = ErrorMetrics(Msg("Analysis failed: ", GatewayError))
        /\ tasks[t].id \in DOMAIN transcripts
        /\ evals[tasks[t].id].transcript_id = tasks[t].id

\* C23: when the Video of the Evaluation does not exist, run_evaluation moves
\* the Evaluation from queued to failed with metrics.error = "Video not
\* found": once the run has returned the row is failed with that message and
\* processing_started_at is still null, and neither gateway was invoked.
C23_Runs == {t \in EvalTasks : tasks[t].novideo}

C23_FailsVideoNotFound ==
    \A t \in C23_Runs :
        /\ tasks[t].tcalls = 0 /\ tasks[t].acalls = 0
        /\ Returned(t) =>
              /\ tasks[t].id \in DOMAIN evals
              /\ evals[tasks[t].id].status = "failed"
              /\ evals[tasks[t].id].metrics = ErrorMetrics(Msg("", "Video not found"))
              /\ evals[tasks[t].id].processing_started_at = NoTime

\* C24: a gateway is invoked only once the matching status is committed.  In
\* a step of run_evaluation that invokes the Transcription Gateway the
\* persisted status is transcribing; in one that invokes the Analysis Gateway
\* it is analyzing and a Transcript of the video is committed; in a step of
\* run_comparison that invokes the Analysis Gateway the persisted status is
\* analyzing and every link passes the validation.
C24_TranscriptOf(v) == {x \in DOMAIN transcripts : transcripts[x].video_id = v}

C24_Step(t) ==
    LET id == tasks[t].id
    IN  /\ (tasks[t].kind = "eval" /\ tasks'[t].tcalls > tasks[t].tcalls)
              => evals'[id].status = "transcribing"
        /\ (tasks[t].kind = "eval" /\ tasks'[t].acalls > tasks[t].acalls)
              => /\ evals'[id].status = "analyzing"
                 /\ C24_TranscriptOf(evals[id].video_id) # {}
        /\ (tasks[t].kind = "comp" /\ tasks'[t].acalls > tasks[t].acalls)
              => /\ comps'[id].status = "analyzing"
                 /\ ValidationError(links[id]) = <<>>

C24_CallsAfterStatusCommitted ==
    [][\A t \in 1 .. Len(tasks) : C24_Step(t)]_vars

\* the Analysis Gateway has just been invoked by a run_evaluation: the row is
\* analyzing and the Transcript of its video is committed
C24_Witness ==
    \E t \in EvalTasks :
        /\ tasks[t].tcalls = 1 /\ tasks[t].acalls = 1 /\ tasks[t].pc = "commit_analysis"
        /\ evals[tasks[t].id].status = "analyzing"
        /\ C24_TranscriptOf(evals[tasks[t].id].video_id) # {}

\* C25, as claimed: no gateway call is retried.  A run_evaluation invokes
\* each gateway at most once, a run_comparison invokes the Analysis Gateway at
\* most once, and a run in which a gateway call failed ends failed: when it
\* returns, the persisted status of its entity is failed.
C25_AtMostOnce ==
    \A t \in 1 .. Len(tasks) :
        /\ tasks[t].tcalls <= 1 /\ tasks[t].acalls <= 1
        /\ tasks[t].kind = "comp" => tasks[t].tcalls = 0

C25_Returns(t) == tasks[t].pc # "done" /\ tasks'[t].pc = "done" /\ tasks[t].gfail # ""

C25_StatusAtReturn(t) ==
    IF tasks[t].kind = "eval" THEN evals'[tasks[t].id].status
    ELSE comps'[tasks[t].id].status

C25_NoRetryEndsFailed ==
    /\ []C25_AtMostOnce
    /\ [][\A t \in 1 .. Len(tasks) :
             C25_Returns(t) => C25_StatusAtReturn(t) = "failed"]_vars

\* C25, amended: the run ends failed unless the commits of its failure
\* handling raise up to the discarded one; the rows are then left as they are.
C25_NoRetryEndsFailedUnlessDropped ==
    /\ []C25_AtMostOnce
    /\ [][\A t \in 1 .. Len(tasks) :
             C25_Returns(t) =>
                 IF tasks'[t].dropped
                 THEN UNCHANGED <<evals, comps>>
                 ELSE C25_StatusAtReturn(t) = "failed"]_vars

\* a run whose only gateway call failed has returned and its entity is failed
C25_Witness ==
    /\ \E t \in EvalTasks :
          /\ Returned(t) /\ tasks[t].gfail = "analysis" /\ ~tasks[t].dropped
          /\ tasks[t].tcalls = 1 /\ tasks[t].acalls = 1
          /\ evals[tasks[t].id].status = "failed"

\* C26: the validation of run_comparison checks the number of links first,
\* then the links in ascending display_order, and stops at the first
\* violation: the error it records names the evaluation of the first link, in
\* that order, whose evaluation is missing, not completed or without report
\* (checked in this order), whatever the later links are.
C26_Fault(link) ==
    IF link.evaluation_id \notin DOMAIN evals THEN "Linked evaluation not found "
    ELSE IF evals[link.evaluation_id].status # "completed" THEN "Evaluation is not completed "
    ELSE IF NoReport(evals[link.evaluation_id]) THEN "Evaluation has no report "
    ELSE ""

C26_Ascending(ls) ==
    \A i, j \in 1 .. Len(ls) : i < j => ls[i].display_order < ls[j].display_order

C26_FirstViolationRecorded ==
    \A t \in CompTasks :
        tasks[t].pc = "fail_load" =>
            LET ls == links[tasks[t].id]
                m == tasks[t].msg
            IN  /\ C26_Ascending(ls)
                /\ tasks[t].obj.metrics = ErrorMetrics(m)
                /\ IF Len(ls) < 2
                   THEN m = Msg("Comparison requires at least 2 evaluations, found ", Len(ls))
                   ELSE \E i \in 1 .. Len(ls) :
                           /\ \A j \in 1 .. i - 1 : C26_Fault(ls[j]) = ""
                           /\ C26_Fault(ls[i]) # ""
                           /\ m = Msg(C26_Fault(ls[i]), ls[i].evaluation_id)

\* two links violate the validation for different reasons, and the error that
\* the run has committed names the first of them
C26_Witness ==
    \E t \in CompTasks :
        LET ls == links[tasks[t].id]
        IN  /\ Returned(t) /\ tasks[t].fraised = 0 /\ Len(ls) >= 2
            /\ \E i, j \in 1 .. Len(ls) :
                  /\ i < j
                  /\ \A k \in 1 .. i - 1 : C26_Fault(ls[k]) = ""
                  /\ C26_Fault(ls[i]) # "" /\ C26_Fault(ls[j]) # ""
                  /\ C26_Fault(ls[i]) # C26_Fault(ls[j])
                  /\ ls[i].evaluation_id # ls[j].evaluation_id
                  /\ comps[tasks[t].id].metrics =
                        ErrorMetrics(Msg(C26_Fault(ls[i]), ls[i].evaluation_id))

\* C27: the strengths of a comparison are the items of the first title, in the
\* order "Cross-Session Strengths", "Strengths Across the Program", "Best
\* Practices to Share", whose extraction is not empty, and the empty list when
\* there is none; the growth items likewise in the order "Cross-Session
\* Growth Opportunities", "Areas for Improvement", "Common Delivery Gaps".
C27_Calls == {t \in 1 .. Len(tasks) : tasks[t].kind = "sections" /\ tasks[t].pc = "done"}

C27_FirstNonEmpty(report, titles, result) ==
    LET found == {k \in 1 .. 3 : extract_sections(report, titles[k]) # <<>>}
    IN  IF found = {} THEN result = <<>>
        ELSE \E k \in found :
                /\ \A j \in found : k <= j
                /\ result = extract_sections(report, titles[k])

C27_FallbackOrder ==
    \A t \in C27_Calls :
        /\ C27_FirstNonEmpty(tasks[t].units, StrengthTitles, tasks[t].obj.strengths)
        /\ C27_FirstNonEmpty(tasks[t].units, GrowthTitles, tasks[t].obj.growth_opportunities)

\* the report has no "Cross-Session Strengths" items but items under both
\* later titles: the strengths are those of "Strengths Across the Program"
C27_Witness ==
    \E t \in C27_Calls :
        LET report == tasks[t].units
        IN  /\ extract_sections(report, StrengthTitles[1]) = <<>>
            /\ extract_sections(report, StrengthTitles[2]) = <<"item a">>
            /\ extract_sections(report, StrengthTitles[3]) = <<"item b">>
            /\ tasks[t].obj.strengths = <<"item a">>

\* C28: whatever evaluations were created and whatever runs took place, at
\* most one Transcript row exists per video id.
C28_OneTranscriptPerVideo ==
    \A a, b \in DOMAIN transcripts :
        transcripts[a].video_id = transcripts[b].video_id => a = b

\* C29: creating a Comparison is atomic: every committed Comparison row has
\* its links, and a Comparison whose status is queued has a pipeline run
\* scheduled for it, also when the write of the links fails.
C29_AtomicCreation ==
    \A c \in DOMAIN comps :
        /\ links[c] # <<>>
        /\ comps[c].status = "queued" => \E t \in CompTasks : tasks[t].id = c

\* C30: GET transcript returns a transcript for an Evaluation only in states
\* where GET evaluation reports has_transcript = true for it; a queued
\* Evaluation is never served the Transcript of an earlier Evaluation of its
\* video.
C30_TranscriptOnlyWhenFlagged ==
    \A e \in DOMAIN evals :
        get_transcript(e).code = 200 =>
            /\ has_transcript(evals[e])
            /\ evals[e].status # "queued"
            /\ get_transcript(e).id = TranscriptId([id |-> e])

====
